---- MODULE Spec2Model ----
(***************************************************************************)
(* Model of download_invoices.py: the run entry point main(), the          *)
(* authentication wait, the dialog and date-range steps, and the download  *)
(* loop of download_all_invoices with its filename-collision probing.      *)
(* File names and header texts are sequences of one-character strings, so  *)
(* that splitting, formatting and collisions are computed, not assumed.    *)
(***************************************************************************)
EXTENDS Integers, Sequences, FiniteSets, TLC

\* ------------------------------------------------------------------ bounds
\* Largest number of "Download invoice" buttons the grid shows at the count.
MaxInvoices == 2

\* ------------------------------------------------------- program constants
AuthTimeoutMs == 300000
LoadTimeoutMs == 60000

\* DATE_RANGE, line 18
DATE_RANGE == "Past 6 months"

\* date_options, line 48
date_options == <<"Past 3 months", "Past 6 months", "Past 12 months", "All">>

\* ------------------------------------------------------------ text helpers
DigitChars == <<"0", "1", "2", "3", "4", "5", "6", "7", "8", "9">>

\* str(n) as used by the f-strings f"invoice_{i}" and f"{base}_{counter}{ext}"
RECURSIVE Str(_)
Str(n) ==
    IF n < 10 THEN <<DigitChars[n + 1]>>
    ELSE Str(n \div 10) \o <<DigitChars[(n % 10) + 1]>>

\* name.rfind('.'), 1-based, 0 when there is no dot
RECURSIVE RFindDot(_, _)
RFindDot(name, k) ==
    IF k = 0 THEN 0
    ELSE IF name[k] = "." THEN k
    ELSE RFindDot(name, k - 1)

\* pathlib: a suffix starts at the last dot, unless that dot is the first or
\* the last character of the name
HasSuffix(name) ==
    LET d == RFindDot(name, Len(name)) IN d > 1 /\ d < Len(name)

\* save_path.suffix, line 142
Suffix(name) ==
    IF HasSuffix(name)
    THEN SubSeq(name, RFindDot(name, Len(name)), Len(name))
    ELSE <<>>

\* save_path.stem, line 141
Stem(name) ==
    IF HasSuffix(name)
    THEN SubSeq(name, 1, RFindDot(name, Len(name)) - 1)
    ELSE name

\* header_text.strip().split()[0]: the first maximal run of non-blank
\* characters; <<>> when the text is empty or blank
RECURSIVE SkipBlanks(_)
SkipBlanks(text) ==
    IF text = <<>> THEN <<>>
    ELSE IF Head(text) = " " THEN SkipBlanks(Tail(text))
    ELSE text

RECURSIVE TakeToken(_)
TakeToken(text) ==
    IF text = <<>> THEN <<>>
    ELSE IF Head(text) = " " THEN <<>>
    ELSE <<Head(text)>> \o TakeToken(Tail(text))

FirstToken(text) == TakeToken(SkipBlanks(text))

PdfExt == <<".", "p", "d", "f">>
InvoicePrefix == <<"i", "n", "v", "o", "i", "c", "e", "_">>

\* A row without a rowheader cell (row_header.count() = 0)
NoHeader == <<"<none>">>

\* InvoiceId with the ordinal counted from zero
InvoiceId_ZeroBased(header, ord) ==
    IF header # NoHeader /\ FirstToken(header) # <<>>
    THEN FirstToken(header)
    ELSE InvoicePrefix \o Str(ord - 1)

\* lines 116-122: invoice_id
InvoiceId(header, ord) ==
    IF header # NoHeader /\ FirstToken(header) # <<>>
    THEN FirstToken(header)
    ELSE InvoicePrefix \o Str(ord)

\* ProposedName with the invoice id taken first
ProposedName_IdFirst(suggested, invoice_id) == invoice_id \o PdfExt

\* lines 133-137: the proposed file name
ProposedName(suggested, invoice_id) ==
    IF suggested # <<>> THEN suggested ELSE invoice_id \o PdfExt

\* Candidate with the counter read after its increment
Candidate_OffByOne(base, cnt, ext) == base \o <<"_">> \o Str(cnt + 1) \o ext

\* line 145: f"{base}_{counter}{ext}"
Candidate(base, cnt, ext) == base \o <<"_">> \o Str(cnt) \o ext

\* ------------------------------------------------------------ input domains
NameA == <<"a">> \o PdfExt
NameA1 == <<"a", "_", "1">> \o PdfExt
NameA2 == <<"a", "_", "2">> \o PdfExt

\* download.suggested_filename; <<>> is an absent suggestion
SuggestedNames == {<<>>, NameA, NameA1}

\* inner_text() of the rowheader cell
HeaderTexts == {NoHeader, <<>>, <<" ">>, <<" ", "a", " ", "b">>}

\* st_size of a completed download: empty or not
DownloadSizes == {0, 1}

\* output directories the run may start with (all files non-empty)
InitialDirs == {{}, {NameA}, {NameA, NameA1}}

\* page.url after goto: two identity-provider hosts and the console itself
LoginUrls == {"login.microsoftonline.com", "login.microsoft.com"}
ConsoleUrl == "admin.cloud.microsoft"

\* values of the DATE_RANGE configuration the model runs with
ConfiguredRanges == {"Past 3 months", DATE_RANGE}

\* what the grid does with a row whose download has completed
\* the range the console shows when the page has loaded
InitialRanges == {"Past 3 months", "Past 6 months"}

\* the date range menu: control is is_visible() of the menu item of the
\* selected range (line 53), target is is_visible() of the option of the
\* configured range once the menu is open (line 66)
DateMenus == [control : BOOLEAN, target : BOOLEAN]
NoMenu == [control |-> FALSE, target |-> FALSE]

GridModes == {"stay", "remove", "shift"}

NoDownload == [ord |-> 0, inv |-> 0, suggested_filename |-> <<>>, size |-> 0]

\* ------------------------------------------------------------------- state
VARIABLES
    pc,             \* position of main / download_all_invoices
    contextOpen,    \* the persistent browser context is launched, not closed
    pending,        \* exception travelling through main's try statement
    exitErr,        \* exception that left main ("none": normal return)
    interruptedAt,  \* position at which the user interrupt struck
    url,            \* page.url
    waitTimeout,    \* timeout of the wait for the invoice grid marker
    markerSeen,     \* the invoice grid marker has been observed
    date_range,     \* configured DATE_RANGE
    selectedRange,  \* range currently selected in the console
    dateMenu,       \* what is_visible() of lines 53 and 66 finds on the page
    rangeStep,      \* how the date range step of lines 212-213 ended
    navLog,         \* steps of main carried out after the marker wait
    grid,           \* live list of rows (invoice numbers) with a download button
    gridMode,       \* behaviour of the grid after a completed download
    files,          \* output directory: name -> [size, src]
    initFiles,      \* output directory at the start of the run
    inflight,       \* triggered downloads whose event has not fired yet
    total, i, downloaded, invoice_id, download, save_path, base, ext, counter,
    header_text,    \* inner_text() of the row header read at line 118
    results,        \* per-item outcomes in the order they were reported
    clicked         \* invoice numbers whose button was clicked, in order

vars == <<pc, contextOpen, pending, exitErr, interruptedAt, url, waitTimeout,
          markerSeen, date_range, selectedRange, dateMenu, rangeStep, navLog,
          grid,
          gridMode, files, initFiles, inflight, total, i, downloaded,
          invoice_id, header_text, download, save_path, base, ext, counter,
          results, clicked>>

mainVars == <<contextOpen, pending, exitErr, interruptedAt, url, waitTimeout,
              markerSeen, date_range, selectedRange, dateMenu, rangeStep,
              navLog>>
pageVars == <<grid, gridMode, inflight, clicked>>
nameVars == <<save_path, base, ext, counter>>

Exists(path) == path \in DOMAIN files

\* download.save_as(save_path): creates or overwrites the file
WriteFile(fs, path, rec) ==
    [n \in (DOMAIN fs) \cup {path} |-> IF n = path THEN rec ELSE fs[n]]

\* save_path.unlink()
Unlink(fs, path) == [n \in (DOMAIN fs) \ {path} |-> fs[n]]

Init ==
    /\ pc = "launch"
    /\ contextOpen = FALSE
    /\ pending = "none"
    /\ exitErr = "none"
    /\ interruptedAt = "none"
    /\ url = "about:blank"
    /\ waitTimeout = 0
    /\ markerSeen = FALSE
    /\ date_range \in ConfiguredRanges
    /\ selectedRange \in InitialRanges
    /\ dateMenu = NoMenu
    /\ rangeStep = "none"
    /\ navLog = <<>>
    /\ grid = <<>>
    /\ gridMode = "stay"
    /\ \E d \in InitialDirs : files = [n \in d |-> [size |-> 1, src |-> 0]]
    /\ initFiles = files
    /\ inflight = {}
    /\ total = 0
    /\ i = 0
    /\ downloaded = 0
    /\ invoice_id = <<>>
    /\ header_text = NoHeader
    /\ download = NoDownload
    /\ save_path = <<>>
    /\ base = <<>>
    /\ ext = <<>>
    /\ counter = 0
    /\ results = <<>>
    /\ clicked = <<>>

\* the frame of download_all_invoices is gone: its locals no longer exist
\* (total and downloaded stay, as the totals of the run)
LocalsGone ==
    /\ i' = 0
    /\ invoice_id' = <<>>
    /\ header_text' = NoHeader
    /\ download' = NoDownload
    /\ save_path' = <<>>
    /\ base' = <<>>
    /\ ext' = <<>>
    /\ counter' = 0

loopVars == <<total, i, downloaded, invoice_id, header_text, download,
              save_path, base, ext, counter, results>>

\* ---------------------------------------------------------------- main()
\* lines 184-189
Launch ==
    /\ pc = "launch"
    /\ contextOpen' = TRUE
    /\ pc' = "new_page"
    /\ UNCHANGED <<pending, exitErr, interruptedAt, url, waitTimeout,
                   markerSeen, date_range, dateMenu, rangeStep, selectedRange, navLog,
                   pageVars, files, initFiles, loopVars>>

\* line 191
NewPage ==
    /\ pc = "new_page"
    /\ pc' = "goto"
    /\ UNCHANGED <<mainVars, pageVars, files, initFiles, loopVars>>

\* lines 195-203: navigate, then choose the wait by the landing URL
Goto ==
    /\ pc = "goto"
    /\ \E u \in LoginUrls \cup {ConsoleUrl} :
        /\ url' = u
        /\ waitTimeout' = IF u \in LoginUrls THEN AuthTimeoutMs
                          ELSE LoadTimeoutMs
    /\ pc' = "wait_marker"
    /\ UNCHANGED <<contextOpen, pending, exitErr, interruptedAt, markerSeen,
                   date_range, dateMenu, rangeStep, selectedRange, navLog, pageVars,
                   files, initFiles, loopVars>>

\* line 195: page.goto raises
GotoFails ==
    /\ pc = "goto"
    /\ pending' = "Error"
    /\ pc' = "except_exc"
    /\ UNCHANGED <<contextOpen, exitErr, interruptedAt, url, waitTimeout,
                   markerSeen, date_range, dateMenu, rangeStep, selectedRange, navLog,
                   pageVars, files, initFiles, loopVars>>

\* lines 37-38 and 203: the invoice grid marker appears within the timeout
MarkerAppears ==
    /\ pc = "wait_marker"
    /\ markerSeen' = TRUE
    /\ url' = ConsoleUrl
    /\ waitTimeout' = 0
    /\ dateMenu' \in DateMenus
    /\ pc' = "close_dialogs"
    /\ UNCHANGED <<contextOpen, pending, exitErr, interruptedAt, date_range,
                   rangeStep, selectedRange, navLog, pageVars, files,
                   initFiles, loopVars>>

\* MarkerTimeout with the exception swallowed: the run goes on
MarkerTimeout_Ignored ==
    /\ pc = "wait_marker"
    /\ pc' = "close_dialogs"
    /\ UNCHANGED <<mainVars, pageVars, files, initFiles, loopVars>>

\* lines 39-41 and 203: the wait times out, PlaywrightTimeoutError is raised
MarkerTimeout ==
    /\ pc = "wait_marker"
    /\ pending' = "Timeout"
    /\ pc' = "except_exc"
    /\ UNCHANGED <<contextOpen, exitErr, interruptedAt, url, waitTimeout,
                   markerSeen, date_range, dateMenu, rangeStep, selectedRange, navLog,
                   pageVars, files, initFiles, loopVars>>

\* lines 79-89: close_dialogs; every exception is swallowed
close_dialogs ==
    /\ pc = "close_dialogs"
    /\ navLog' = Append(navLog, "close_dialogs")
    /\ pc' = "date_range"
    /\ UNCHANGED <<contextOpen, pending, exitErr, interruptedAt, url,
                   waitTimeout, markerSeen, date_range, dateMenu, rangeStep, selectedRange,
                   pageVars, files, initFiles, loopVars>>

\* lines 51-55: the first option of date_options whose menu item is visible
\* (0: none)
RECURSIVE FirstVisible(_, _)
FirstVisible(visible, k) ==
    IF k > Len(date_options) THEN 0
    ELSE IF date_options[k] \in visible THEN k
    ELSE FirstVisible(visible, k + 1)

\* lines 44-76: the range selected after change_date_range
change_date_range(visible, targetVisible, raised) ==
    IF raised THEN selectedRange
    ELSE IF FirstVisible(visible, 1) = 0 THEN selectedRange
    ELSE IF targetVisible THEN date_range
    ELSE selectedRange

\* lines 57-76: the branch change_date_range ended in
RangeOutcome(visible, targetVisible, raised) ==
    IF raised THEN "raised"
    ELSE IF FirstVisible(visible, 1) = 0 THEN "no_control"
    ELSE IF targetVisible THEN "selected"
    ELSE "no_target"

\* the menu items of date_options that are visible: the one of the range
\* the console shows, when the control is there
VisibleItems == IF dateMenu.control THEN {selectedRange} ELSE {}

\* DateRangeStep with the handlers of lines 73-76 missing: an exception of
\* change_date_range reaches main
DateRangeStep_Raises ==
    /\ pc = "date_range"
    /\ IF date_range # "Past 3 months"
       THEN \E raised \in BOOLEAN :
            /\ selectedRange' =
                   change_date_range(VisibleItems, dateMenu.target, raised)
            /\ rangeStep' =
                   RangeOutcome(VisibleItems, dateMenu.target, raised)
            /\ navLog' = Append(navLog, "change_date_range")
            /\ pending' = IF raised THEN "Error" ELSE pending
            /\ pc' = IF raised THEN "except_exc" ELSE "count"
       ELSE /\ rangeStep' = "skipped"
            /\ pc' = "count"
            /\ UNCHANGED <<selectedRange, navLog, pending>>
    /\ UNCHANGED <<contextOpen, exitErr, interruptedAt, url,
                   waitTimeout, markerSeen, date_range, dateMenu, pageVars,
                   files, initFiles, loopVars>>

\* lines 212-213: change_date_range is called unless the configured range
\* is "Past 3 months"; an exception may strike at any of its calls
DateRangeStep ==
    /\ pc = "date_range"
    /\ IF date_range # "Past 3 months"
       THEN \E raised \in BOOLEAN :
            /\ selectedRange' =
                   change_date_range(VisibleItems, dateMenu.target, raised)
            /\ rangeStep' =
                   RangeOutcome(VisibleItems, dateMenu.target, raised)
            /\ navLog' = Append(navLog, "change_date_range")
       ELSE /\ rangeStep' = "skipped"
            /\ UNCHANGED <<selectedRange, navLog>>
    /\ pc' = "count"
    /\ UNCHANGED <<contextOpen, pending, exitErr, interruptedAt, url,
                   waitTimeout, markerSeen, date_range, dateMenu, pageVars,
                   files, initFiles, loopVars>>

\* ------------------------------------------------- download_all_invoices()
\* lines 167-170: which handler takes the exception
OutcomeOf(exc) == IF exc = "Timeout" THEN "TimedOut" ELSE "Error"

\* the report printed for ordinal i, kept as a record; step is the step of
\* the iteration that ended it
Report(outcome, step, path) ==
    results' = Append(results, [ordinal |-> i, outcome |-> outcome,
                                step |-> step, path |-> path])

\* the grid after the download of row inv has completed
GridAfter(g, inv, mode) ==
    IF mode = "remove" THEN SelectSeq(g, LAMBDA r : r # inv)
    ELSE IF mode = "shift" /\ Len(g) > 1 THEN Tail(g) \o <<Head(g)>>
    ELSE g

\* CountButtons without the early return of lines 97-99
CountButtons_NoEarlyReturn ==
    /\ pc = "count"
    /\ \E n \in 0..MaxInvoices, mode \in GridModes :
        /\ grid' = [k \in 1..n |-> k]
        /\ gridMode' = mode
        /\ total' = n
    /\ i' = 1
    /\ pc' = "query"
    /\ downloaded' = 0
    /\ navLog' = Append(navLog, "download_all_invoices")
    /\ dateMenu' = NoMenu
    /\ rangeStep' = "none"
    /\ UNCHANGED <<contextOpen, pending, exitErr, interruptedAt, url,
                   waitTimeout, markerSeen, date_range,
                   selectedRange, inflight, clicked, files, initFiles,
                   invoice_id, header_text, download, nameVars, results>>

\* lines 95-102: count the buttons; return 0 when there are none (the date
\* range menu is not looked at again)
CountButtons ==
    /\ pc = "count"
    /\ \E n \in 0..MaxInvoices, mode \in GridModes :
        /\ grid' = [k \in 1..n |-> k]
        /\ gridMode' = mode
        /\ total' = n
        /\ i' = IF n = 0 THEN 0 ELSE 1
        /\ pc' = IF n = 0 THEN "summary" ELSE "query"
    /\ downloaded' = 0
    /\ navLog' = Append(navLog, "download_all_invoices")
    /\ dateMenu' = NoMenu
    /\ rangeStep' = "none"
    /\ UNCHANGED <<contextOpen, pending, exitErr, interruptedAt, url,
                   waitTimeout, markerSeen, date_range,
                   selectedRange, inflight, clicked, files, initFiles,
                   invoice_id, header_text, download, nameVars, results>>

\* lines 108-124: re-query the buttons, take position i-1, derive invoice_id
\* from the row header (a position past the end of the grid has no row)
QueryRow ==
    /\ pc = "query"
    /\ \E h \in HeaderTexts :
        /\ i > Len(grid) => h = NoHeader
        /\ header_text' = h
        /\ invoice_id' = InvoiceId(h, i)
    /\ pc' = "click"
    /\ UNCHANGED <<mainVars, pageVars, files, initFiles, total, i, downloaded,
                   download, nameVars, results>>

\* lines 108-124 raise (for instance inner_text fails): handler of line 169
QueryRaises ==
    /\ pc = "query"
    /\ Report(OutcomeOf("Error"), "query", <<>>)
    /\ pc' = "next"
    /\ UNCHANGED <<mainVars, pageVars, files, initFiles, total, i, downloaded,
                   invoice_id, header_text, download, nameVars>>

\* line 128: button.click() on the row now at position i-1 (header_text is
\* not read after line 122 and is dropped here)
Click ==
    /\ pc = "click"
    /\ i <= Len(grid)
    /\ clicked' = Append(clicked, grid[i])
    /\ inflight' = inflight \cup {[ord |-> i, inv |-> grid[i]]}
    /\ header_text' = NoHeader
    /\ pc' = "await"
    /\ UNCHANGED <<mainVars, grid, gridMode, files, initFiles, total, i,
                   downloaded, invoice_id, download, nameVars, results>>

\* line 128: the click raises; with no button at position i-1 it can only
\* time out
ClickRaises ==
    /\ pc = "click"
    /\ \E exc \in {"Timeout", "Error"} :
        /\ i > Len(grid) => exc = "Timeout"
        /\ Report(OutcomeOf(exc),
                  IF i > Len(grid) THEN "no_button" ELSE "click", <<>>)
    /\ header_text' = NoHeader
    /\ pc' = "next"
    /\ UNCHANGED <<mainVars, pageVars, files, initFiles, total, i, downloaded,
                   invoice_id, download, nameVars>>

\* lines 127-130: the next download event of the page fires while
\* expect_download is listening; it is whichever triggered download
\* completes first
AwaitDownload ==
    /\ pc = "await"
    /\ \E d \in inflight, s \in SuggestedNames, z \in DownloadSizes :
        /\ download' = [ord |-> d.ord, inv |-> d.inv,
                        suggested_filename |-> s, size |-> z]
        /\ inflight' = inflight \ {d}
        /\ grid' = GridAfter(grid, d.inv, gridMode)
    /\ pc' = "name"
    /\ UNCHANGED <<mainVars, gridMode, clicked, files, initFiles, total, i,
                   downloaded, invoice_id, header_text, nameVars, results>>

\* AwaitTimesOut without the handler of line 167: the timeout leaves the loop
AwaitTimesOut_Escapes ==
    /\ pc = "await"
    /\ pending' = "Timeout"
    /\ pc' = "except_exc"
    /\ LocalsGone
    /\ UNCHANGED <<contextOpen, exitErr, interruptedAt, url, waitTimeout,
                   markerSeen, date_range, dateMenu, rangeStep, selectedRange, navLog, pageVars,
                   files, initFiles, total, downloaded, results>>

\* line 127: no download event within the 60 s of expect_download
AwaitTimesOut ==
    /\ pc = "await"
    /\ Report(OutcomeOf("Timeout"), "await", <<>>)
    /\ pc' = "next"
    /\ UNCHANGED <<mainVars, pageVars, files, initFiles, total, i, downloaded,
                   invoice_id, header_text, download, nameVars>>

\* a triggered download completes while nothing listens for the event
UnheardDownload ==
    /\ pc = "query"
    /\ \E d \in inflight :
        /\ inflight' = inflight \ {d}
        /\ grid' = GridAfter(grid, d.inv, gridMode)
    /\ UNCHANGED <<pc, mainVars, gridMode, clicked, files, initFiles,
                   loopVars>>

\* ProposeName without the collision test of line 140
ProposeName_NoProbe ==
    /\ pc = "name"
    /\ save_path' = ProposedName(download.suggested_filename, invoice_id)
    /\ pc' = "save"
    /\ UNCHANGED <<mainVars, pageVars, files, initFiles, total, i, downloaded,
                   invoice_id, header_text, download, base, ext, counter, results>>

\* lines 133-143: proposed name, and the split when it is taken
ProposeName ==
    /\ pc = "name"
    /\ LET p == ProposedName(download.suggested_filename, invoice_id) IN
        /\ save_path' = p
        /\ IF Exists(p)
           THEN /\ base' = Stem(p)
                /\ ext' = Suffix(p)
                /\ counter' = 1
                /\ pc' = "probe"
           ELSE /\ UNCHANGED <<base, ext, counter>>
                /\ pc' = "save"
    /\ UNCHANGED <<mainVars, pageVars, files, initFiles, total, i, downloaded,
                   invoice_id, header_text, download, results>>

\* Probe without the repeated test of line 144: the first candidate is taken
Probe_NoRetest ==
    /\ pc = "probe"
    /\ save_path' = Candidate(base, counter, ext)
    /\ counter' = counter + 1
    /\ pc' = "save"
    /\ UNCHANGED <<mainVars, pageVars, files, initFiles, total, i, downloaded,
                   invoice_id, header_text, download, base, ext, results>>

\* lines 144-146: one pass of the while loop, then its test
Probe ==
    /\ pc = "probe"
    /\ save_path' = Candidate(base, counter, ext)
    /\ counter' = counter + 1
    /\ pc' = IF Exists(save_path') THEN "probe" ELSE "save"
    /\ UNCHANGED <<mainVars, pageVars, files, initFiles, total, i, downloaded,
                   invoice_id, header_text, download, base, ext, results>>

\* line 148: download.save_as(save_path); written says whether a file is
\* there afterwards
SaveAs ==
    /\ pc = "save"
    /\ \E written \in BOOLEAN :
        files' = IF written
                 THEN WriteFile(files, save_path,
                                [size |-> download.size, src |-> download.inv])
                 ELSE files
    /\ pc' = "verify"
    /\ UNCHANGED <<mainVars, pageVars, initFiles, loopVars>>

\* line 148 raises: handler of line 169
SaveRaises ==
    /\ pc = "save"
    /\ Report(OutcomeOf("Error"), "save", <<>>)
    /\ pc' = "next"
    /\ UNCHANGED <<mainVars, pageVars, files, initFiles, total, i, downloaded,
                   invoice_id, header_text, download, nameVars>>

\* Verify with the increment of line 162 placed before the size test
Verify_CountsEmpty ==
    /\ pc = "verify"
    /\ IF ~Exists(save_path)
       THEN /\ Report("Error", "missing", save_path)
            /\ UNCHANGED <<files, downloaded>>
       ELSE IF files[save_path].size = 0
       THEN /\ files' = Unlink(files, save_path)
            /\ Report("Empty", "verify", save_path)
            /\ downloaded' = downloaded + 1
       ELSE /\ Report("Saved", "verify", save_path)
            /\ downloaded' = downloaded + 1
            /\ UNCHANGED files
    /\ pc' = "next"
    /\ UNCHANGED <<mainVars, pageVars, initFiles, total, i, invoice_id, header_text,
                   download, nameVars>>

\* lines 151-165: missing file, empty file (removed), or saved and counted
Verify ==
    /\ pc = "verify"
    /\ IF ~Exists(save_path)
       THEN /\ Report("Error", "missing", save_path)
            /\ UNCHANGED <<files, downloaded>>
       ELSE IF files[save_path].size = 0
       THEN /\ files' = Unlink(files, save_path)
            /\ Report("Empty", "verify", save_path)
            /\ UNCHANGED downloaded
       ELSE /\ Report("Saved", "verify", save_path)
            /\ downloaded' = downloaded + 1
            /\ UNCHANGED files
    /\ pc' = "next"
    /\ UNCHANGED <<mainVars, pageVars, initFiles, total, i, invoice_id, header_text,
                   download, nameVars>>

\* lines 155-161 raise after the file was written (stat, the report of line
\* 157 or 161, unlink): handler of line 169
VerifyRaises ==
    /\ pc = "verify"
    /\ Exists(save_path)
    /\ Report(OutcomeOf("Error"), "verify", <<>>)
    /\ pc' = "next"
    /\ UNCHANGED <<mainVars, pageVars, files, initFiles, total, i, downloaded,
                   invoice_id, header_text, download, nameVars>>

\* line 104: the next ordinal, or line 172: return downloaded
NextOrdinal ==
    /\ pc = "next"
    /\ IF i < total
       THEN /\ i' = i + 1
            /\ pc' = "query"
            /\ UNCHANGED <<total, invoice_id, header_text, download, nameVars>>
       ELSE /\ LocalsGone
            /\ pc' = "summary"
            /\ UNCHANGED total
    /\ UNCHANGED <<mainVars, pageVars, files, initFiles, downloaded, results>>

\* ------------------------------------------------------- main(), the end
\* lines 218-220
Summary ==
    /\ pc = "summary"
    /\ pc' = "finally_input"
    /\ UNCHANGED <<mainVars, pageVars, files, initFiles, loopVars>>

\* positions inside the try statement of lines 193-220
TryPositions ==
    {"goto", "wait_marker", "close_dialogs", "date_range", "count", "query",
     "click", "await", "name", "probe", "save", "verify", "next", "summary"}

\* KeyboardInterrupt inside the try statement: no "except Exception" keeps
\* it, it reaches line 222
Interrupt ==
    /\ pc \in TryPositions
    /\ interruptedAt' = pc
    /\ pending' = "KeyboardInterrupt"
    /\ pc' = "except_ki"
    /\ LocalsGone
    /\ UNCHANGED <<contextOpen, exitErr, url, waitTimeout, markerSeen,
                   date_range, dateMenu, rangeStep, selectedRange, navLog, pageVars,
                   files, initFiles, total, downloaded, results>>

\* lines 222-223: the interrupt is handled
ExceptInterrupt ==
    /\ pc = "except_ki"
    /\ pending' = "none"
    /\ pc' = "finally_input"
    /\ UNCHANGED <<contextOpen, exitErr, interruptedAt, url, waitTimeout,
                   markerSeen, date_range, dateMenu, rangeStep, selectedRange, navLog,
                   pageVars, files, initFiles, loopVars>>

\* lines 224-226: report and re-raise
ExceptException ==
    /\ pc = "except_exc"
    /\ pc' = "finally_input"
    /\ UNCHANGED <<mainVars, pageVars, files, initFiles, loopVars>>

\* lines 229-232: input() returns or raises EOFError
FinallyInput ==
    /\ pc = "finally_input"
    /\ pc' = "close"
    /\ UNCHANGED <<mainVars, pageVars, files, initFiles, loopVars>>

\* line 233: context.close(), then the pending exception leaves main
CloseContext ==
    /\ pc = "close"
    /\ contextOpen' = FALSE
    /\ exitErr' = pending
    /\ pending' = "none"
    /\ pc' = "exit"
    /\ UNCHANGED <<interruptedAt, url, waitTimeout, markerSeen, date_range, dateMenu, rangeStep, selectedRange, navLog, pageVars, files,
                   initFiles, loopVars>>

\* KeyboardInterrupt outside the try statement (line 191) or inside the
\* finally clause (line 230, which catches EOFError only): it leaves main
\* and line 233 is not reached
InterruptOutsideTry ==
    /\ pc \in {"new_page", "finally_input"}
    /\ interruptedAt' = pc
    /\ exitErr' = "KeyboardInterrupt"
    /\ pending' = "none"
    /\ pc' = "exit"
    /\ UNCHANGED <<contextOpen, url, waitTimeout, markerSeen, date_range, dateMenu, rangeStep, selectedRange, navLog, pageVars, files,
                   initFiles, loopVars>>

Next ==
    \/ Launch
    \/ NewPage
    \/ Goto
    \/ GotoFails
    \/ MarkerAppears
    \/ MarkerTimeout
    \/ close_dialogs
    \/ DateRangeStep
    \/ CountButtons
    \/ QueryRow
    \/ QueryRaises
    \/ Click
    \/ ClickRaises
    \/ AwaitDownload
    \/ AwaitTimesOut
    \/ UnheardDownload
    \/ ProposeName
    \/ Probe
    \/ SaveAs
    \/ SaveRaises
    \/ Verify
    \/ VerifyRaises
    \/ NextOrdinal
    \/ Summary
    \/ Interrupt
    \/ ExceptInterrupt
    \/ ExceptException
    \/ FinallyInput
    \/ CloseContext
    \/ InterruptOutsideTry

Spec == Init /\ [][Next]_vars

\* ------------------------------------------------------------ properties
LoopPositions == {"query", "click", "await", "name", "probe", "save", "verify"}

\* download_all_invoices has been called
Started == \E k \in 1..Len(navLog) : navLog[k] = "download_all_invoices"

Count(seq, x) == Cardinality({k \in 1..Len(seq) : seq[k] = x})

SavedOrdinals == {k \in 1..Len(results) : results[k].outcome = "Saved"}

\* C1: the loop reports exactly one outcome per ordinal, in the order
\* 1..total, whatever fails inside an iteration (timeout, missing file,
\* empty file, exception at any step); it returns with all total ordinals
\* done, and no Timeout or Error raised inside the loop ever travels
\* through or out of main.
C1_EveryOrdinalOnce ==
    /\ \A k \in 1..Len(results) : results[k].ordinal = k
    /\ pc \in LoopPositions => i \in 1..total /\ Len(results) = i - 1
    /\ pc = "next" => i \in 1..total /\ Len(results) = i
    /\ pc = "summary" => Len(results) = total
    /\ (pending \in {"Timeout", "Error"} \/ exitErr \in {"Timeout", "Error"})
           => ~Started

\* C1 witness: a run returned normally after ordinal 1 timed out and
\* ordinal 2 was saved.
C1_Witness ==
    /\ pc = "summary"
    /\ total = 2
    /\ results[1].outcome = "TimedOut"
    /\ results[2].outcome = "Saved"

\* C2: every invoice whose button was visible at the count is clicked
\* exactly once: never twice, and (when no query or click on an existing
\* button failed) once by the time the loop returns, whether the grid keeps
\* its rows, removes a downloaded row, or shifts the rows.
C2_EveryInvoiceTriggeredOnce ==
    /\ \A inv \in 1..total : Count(clicked, inv) <= 1
    /\ (/\ pc = "summary"
        /\ \A k \in 1..Len(results) : results[k].step \notin {"query", "click"})
           => \A inv \in 1..total : Count(clicked, inv) = 1

\* C3: the counter downloaded equals the number of ordinals reported Saved,
\* never exceeds total, and every ordinal reported Saved has its file in
\* the output directory with a size above 0.
C3_SavedCounter ==
    /\ downloaded = Cardinality(SavedOrdinals)
    /\ downloaded <= total
    /\ \A k \in SavedOrdinals :
           /\ results[k].path \in DOMAIN files
           /\ files[results[k].path].size > 0

\* C3 witness: a finished run with one ordinal saved and one found empty.
C3_Witness ==
    /\ pc = "summary"
    /\ downloaded = 1
    /\ \E k \in 1..Len(results) : results[k].outcome = "Empty"
    /\ \E k \in 1..Len(results) : results[k].outcome = "Saved"

\* C4: the paths of the ordinals reported Saved are pairwise distinct; and
\* in a directory that was empty at the start, a download suggesting a.pdf
\* is saved as a.pdf at ordinal 1, and as a_1.pdf at ordinal 2 when
\* ordinal 1 was saved as a.pdf, both files then being in the directory
\* and not empty.
C4_DistinctSavedPaths ==
    /\ \A j, k \in SavedOrdinals : j # k => results[j].path # results[k].path
    /\ (/\ pc = "next"
        /\ DOMAIN initFiles = {}
        /\ download.suggested_filename = NameA
        /\ results[i].outcome = "Saved")
           => /\ i = 1 => results[1].path = NameA
              /\ (i = 2 /\ 1 \in SavedOrdinals /\ results[1].path = NameA)
                     => /\ results[2].path = NameA1
                        /\ {NameA, NameA1} \subseteq DOMAIN files
                        /\ files[NameA].size > 0
                        /\ files[NameA1].size > 0

\* C4 witness: two downloads saved in an initially empty directory, the
\* second one suggesting the name a.pdf that the first one took.
C4_Witness ==
    /\ pc = "next"
    /\ i = 2
    /\ DOMAIN initFiles = {}
    /\ download.suggested_filename = NameA
    /\ SavedOrdinals = {1, 2}
    /\ results[1].path = NameA
    /\ results[2].path = NameA1

\* the k-th name of the sequence stem.ext, stem_1.ext, stem_2.ext, ...
NthName(p, k) ==
    IF k = 0 THEN p ELSE Stem(p) \o <<"_">> \o Str(k) \o Suffix(p)

\* C5: when the collision step is over, save_path is not in the output
\* directory and is the first free name of the sequence p, stem_1.ext,
\* stem_2.ext, ... of the proposed name p (a_2.pdf when a.pdf and a_1.pdf
\* exist, p itself when it is free); while probing, all names tried so far
\* exist, so the counter stays within the number of files plus one and the
\* loop ends.
C5_FirstFreeName ==
    LET p == ProposedName(download.suggested_filename, invoice_id)
        free == {k \in 0..Cardinality(DOMAIN files) :
                    NthName(p, k) \notin DOMAIN files}
    IN  /\ pc = "save" =>
              /\ save_path \notin DOMAIN files
              /\ \E k \in free : /\ save_path = NthName(p, k)
                                 /\ \A j \in free : k <= j
        /\ (pc = "save" /\ p = NameA /\ {NameA, NameA1} \subseteq DOMAIN files
               /\ NameA2 \notin DOMAIN files) => save_path = NameA2
        /\ pc = "probe" =>
              /\ \A k \in 0..(counter - 1) : NthName(p, k) \in DOMAIN files
              /\ counter <= Cardinality(DOMAIN files) + 1

\* C5 witness: a.pdf and a_1.pdf exist and the step has settled on a_2.pdf.
C5_Witness ==
    /\ pc = "save"
    /\ {NameA, NameA1} \subseteq DOMAIN files
    /\ ProposedName(download.suggested_filename, invoice_id) = NameA
    /\ save_path = NameA2
    /\ counter = 3

\* C6: when the loop has returned, no file of the output directory is
\* empty, and the counter does not include more ordinals than the run left
\* non-empty files.
C6_NoEmptyFileRemains ==
    pc = "summary" =>
        /\ \A n \in DOMAIN files : files[n].size > 0
        /\ downloaded <= Cardinality({n \in (DOMAIN files) \ (DOMAIN initFiles) :
                                          files[n].size > 0})

\* C7: when the count of buttons is 0, download_all_invoices is left at
\* once with 0 saved, no report, no click, no download triggered and the
\* output directory as it was.
C7_NothingFound ==
    (Started /\ total = 0) =>
        /\ pc \notin LoopPositions \cup {"next"}
        /\ downloaded = 0
        /\ results = <<>>
        /\ clicked = <<>>
        /\ inflight = {}
        /\ files = initFiles

\* C7 witness: the function returned with no button found, the directory
\* holding files from before the run.
C7_Witness ==
    /\ pc = "summary"
    /\ Started
    /\ total = 0
    /\ DOMAIN files # {}

\* C8: no step after the marker wait (dialogs, date range, download loop)
\* is taken before the marker was observed; the wait is bounded by 300 s
\* on an identity-provider URL and by 60 s otherwise; once the wait has
\* timed out nothing is dismissed, changed, clicked or written, and (with
\* no user interrupt) main ends with the timeout error, the context closed.
C8_MarkerBeforeLoop ==
    /\ (navLog # <<>> \/ pc \in LoopPositions \cup {"next", "summary"})
           => markerSeen
    /\ pc = "wait_marker" =>
           waitTimeout =
               IF url \in {"login.microsoftonline.com", "login.microsoft.com"}
               THEN 300000 ELSE 60000
    /\ (pending = "Timeout" \/ exitErr = "Timeout") =>
           /\ ~markerSeen
           /\ navLog = <<>>
           /\ clicked = <<>>
           /\ inflight = {}
           /\ results = <<>>
           /\ files = initFiles
    /\ exitErr = "Timeout" => ~contextOpen
    /\ (pc = "exit" /\ waitTimeout # 0 /\ interruptedAt = "none") =>
           /\ exitErr = "Timeout"
           /\ ~contextOpen

\* C8 witness: main has ended with the timeout of the 300 s wait.
C8_Witness ==
    /\ pc = "exit"
    /\ exitErr = "Timeout"
    /\ url \in LoginUrls
    /\ waitTimeout = 300000

\* C9: when main has ended after a user interrupt, the browser context is
\* closed and no exception has left main.
C9_InterruptHandled ==
    (pc = "exit" /\ interruptedAt # "none") =>
        /\ ~contextOpen
        /\ exitErr = "none"

\* C10: the download that ordinal i names, saves and verifies is the one
\* its own click triggered, and at most one triggered download is
\* outstanding at any time.
C10_OneToOne ==
    /\ pc \in {"name", "probe", "save", "verify"} => download.ord = i
    /\ Cardinality(inflight) <= 1


\* C11: when the loop has returned, the files the run added to the output
\* directory are exactly as many as the ordinals counted as saved: no item
\* reported TimedOut, Empty or Error has left a file behind.
C11_OneFilePerSaved ==
    pc = "summary" =>
        Cardinality((DOMAIN files) \ (DOMAIN initFiles)) = downloaded

\* C13: an ordinal is reported TimedOut exactly when its wait for the
\* download event ran out; a failure at any other step is reported Error.
C13_TimedOutOnlyForWait ==
    \A k \in 1..Len(results) :
        results[k].outcome = "TimedOut" <=> results[k].step = "await"


\* C16: the name proposed for an item is the suggested file name when there
\* is one and <invoice_id>.pdf otherwise; the content is written once, to
\* the path the collision step ended on, free at that moment, and the path
\* is not changed between the write and the report.
C16_ProposedThenResolved ==
    [][/\ (pc = "name" /\ pc' \in {"probe", "save"}) =>
              save_path' = IF download.suggested_filename # <<>>
                           THEN download.suggested_filename
                           ELSE invoice_id \o <<".", "p", "d", "f">>
       /\ (pc = "probe" /\ pc' \in {"probe", "save"}) =>
              \E k \in 1..(Cardinality(DOMAIN files) + 1) :
                  save_path' =
                      NthName(IF download.suggested_filename # <<>>
                              THEN download.suggested_filename
                              ELSE invoice_id \o <<".", "p", "d", "f">>, k)
       /\ files' # files /\ DOMAIN files \subseteq DOMAIN files' =>
              /\ pc = "save"
              /\ save_path \notin DOMAIN files
              /\ DOMAIN files' = (DOMAIN files) \cup {save_path}
       /\ (pc \in {"save", "verify"} /\ pc' \in {"verify", "next"}) =>
              save_path' = save_path]_vars

\* C16 witness: a download suggesting a.pdf has been written to a_1.pdf,
\* the name the collision step ended on.
C16_Witness ==
    /\ pc = "verify"
    /\ download.suggested_filename = NameA
    /\ save_path = NameA1
    /\ save_path \in DOMAIN files

\* C17: every file the output directory held at the start is still there
\* with its content; a write goes to a path that was free, and the only
\* file ever removed is the empty file the current iteration wrote.
C17_ExistingFilesKept ==
    /\ [](/\ \A n \in DOMAIN initFiles :
                n \in DOMAIN files /\ files[n] = initFiles[n]
          /\ pc = "save" => save_path \notin DOMAIN files)
    /\ [][/\ (DOMAIN files' # DOMAIN files
                /\ DOMAIN files \subseteq DOMAIN files') =>
                 /\ pc = "save"
                 /\ DOMAIN files' = (DOMAIN files) \cup {save_path}
          /\ ~(DOMAIN files \subseteq DOMAIN files') =>
                 /\ pc = "verify"
                 /\ DOMAIN files' = (DOMAIN files) \ {save_path}
                 /\ save_path \notin DOMAIN initFiles
                 /\ files[save_path].size = 0
                 /\ files[save_path].src = download.inv]_vars

\* C17 witness: an empty download written next to a.pdf and a_1.pdf has
\* been removed again, the two older files untouched.
C17_Witness ==
    /\ pc = "next"
    /\ DOMAIN initFiles = {NameA, NameA1}
    /\ results[i].outcome = "Empty"
    /\ results[i].path = NameA2
    /\ files = initFiles


\* C15: once the row has been read for ordinal i, invoice_id is the first
\* run of non-blank characters of the header text when the row has a header
\* cell whose text is not blank, and is exactly invoice_<i> when the cell is
\* absent or its text is empty or blank.
C15_IdentifierFromHeader ==
    pc = "click" =>
        LET n == Len(header_text) IN
        IF header_text # NoHeader /\ \E k \in 1..n : header_text[k] # " "
        THEN \E a \in 1..n, b \in 1..n :
                /\ a <= b
                /\ \A k \in 1..(a - 1) : header_text[k] = " "
                /\ \A k \in a..b : header_text[k] # " "
                /\ b = n \/ header_text[b + 1] = " "
                /\ invoice_id = SubSeq(header_text, a, b)
        ELSE invoice_id = <<"i", "n", "v", "o", "i", "c", "e", "_">> \o Str(i)

\* C15 witness: the second row has a header cell holding one blank, and the
\* identifier is invoice_2.
C15_Witness ==
    /\ pc = "click"
    /\ i = 2
    /\ header_text = <<" ">>
    /\ invoice_id = InvoicePrefix \o <<"2">>


\* C12: the date range step never fails the run: when it ends (the user
\* not interrupting), main is at the call of download_all_invoices with no
\* exception travelling, and when the control is missing, the target option
\* is not visible or a call raised, the selected range is the one that was
\* selected before.
C12_DateRangeSoftFailure ==
    [][(pc = "date_range" /\ pc' # "date_range" /\ interruptedAt' = "none") =>
          /\ pc' = "count"
          /\ pending' = "none"
          /\ exitErr' = "none"
          /\ (~dateMenu.control \/ ~dateMenu.target \/ rangeStep' = "raised")
                 => selectedRange' = selectedRange]_vars

\* C12 witness: with the control and the target option both visible, a call
\* of change_date_range raised; the console still shows "Past 3 months" and
\* main is about to count the rows.
C12_Witness ==
    /\ pc = "count"
    /\ rangeStep = "raised"
    /\ dateMenu.control /\ dateMenu.target
    /\ date_range = "Past 6 months"
    /\ selectedRange = "Past 3 months"
    /\ pending = "none"

\* C14: for every configured range, when the control of the selected range
\* is visible, the target option is visible and no call raised, the console
\* shows the configured range when download_all_invoices counts the rows.
C14_TargetSelectedBeforeCount ==
    (pc = "count" /\ dateMenu.control /\ dateMenu.target
        /\ rangeStep # "raised") => selectedRange = date_range

====
